---- MODULE Spec2Model ----
(***************************************************************************)
(* Model of match_data in match_ardex_data.py: the greedy, first-fit,      *)
(* order-dependent assignment of primary Event IDs to secondary rows.      *)
(*                                                                         *)
(* A DataFrame is a sequence of rows; the index label of a row is its      *)
(* position (pandas' RangeIndex 0..n-1 is written 1..n here).  Strings     *)
(* that the code inspects character by character (names, phone numbers)    *)
(* are sequences of one-character strings.  Dates are day numbers.  A      *)
(* float is a record [nan, val] so that NaN compares as IEEE-754 does.     *)
(***************************************************************************)
EXTENDS Integers, Sequences, FiniteSets

VARIABLES primary, secondary, unmatched_primary_indices,
          unmatched_secondary_indices, i, rows, k, pc,
          missing_events, missing_rewards

vars == <<primary, secondary, unmatched_primary_indices,
          unmatched_secondary_indices, i, rows, k, pc,
          missing_events, missing_rewards>>

\* ------------------------------------------------------------------ bounds
MaxPrimary == 2

MaxSecondary == 2

\* ------------------------------------------------------- program constants
\* timedelta(days=7)
WindowDays == 7

\* ------------------------------------------------------------ value domain
\* Python's None (the placeholder of line 105, or an empty Event ID cell).
None == "<None>"

\* pandas' missing value in an object column (an empty CASHVIP? cell).
NA == "<NA>"

\* float('nan'), and a finite float
NaN == [nan |-> TRUE, val |-> 0]

Float(v) == [nan |-> FALSE, val |-> v]

\* A comparison that takes two NaN for equal.
FloatEqNaNEqual(a, b) == a = b

\* Python's float ==: NaN equals nothing, itself included.
FloatEq(a, b) == ~a.nan /\ ~b.nan /\ a.val = b.val

\* str.lower() on one character, for the alphabet of the inputs below.
LowerChar(c) ==
    CASE c = "A" -> "a"
      [] c = "B" -> "b"
      [] c = "C" -> "c"
      [] OTHER   -> c

\* str.lower()
Lower(s) == [n \in 1..Len(s) |-> LowerChar(s[n])]

\* str.endswith(suffix)
EndsWith(s, suffix) ==
    /\ Len(suffix) <= Len(s)
    /\ SubSeq(s, Len(s) - Len(suffix) + 1, Len(s)) = suffix

\* ---------------------------------------------------------------- the rows
\* The frames are those that carry every column match_data reads (lines
\* 115-125); 'last_10_digits' is read at line 115 although prepare_data
\* leaves the ten digits in 'Telephone Number' (line 70).  CASHVIP is 'YES'
\* or 'NO' as prepare_data writes it (line 77), or '' as line 122 tests it.
\* Every combination of field values, for the runs with one row a side.
PrimaryRowsFull ==
    [EventID        : {None, "E1"},
     name           : {<<"a", "b">>, <<"A", "b">>},
     last_10_digits : {<<"5", "7">>, <<"5", "8">>},
     ReportedAt     : {10, 11},
     amount         : {NaN, Float(50)},
     CASHVIP        : {"YES", "NO", ""}]

SecondaryRowsFull ==
    [RecipientPhoneNumber : {<<"1", "5", "7">>, <<"5", "7">>, <<"7">>},
     Recipient            : {<<"A", "B">>, <<"a", "b">>, <<"a", "c">>},
     OrderReleaseDate     : {9, 10, 11, 17, 18, 19},
     Amount               : {NaN, Float(50), Float(60)},
     CASHVIPq             : {"YES", "NO", NA},
     EventID              : {None}]

\* Fewer values per field, for the runs with several rows a side.
PrimaryRowsSmall ==
    [EventID        : {"E1", "E2"},
     name           : {<<"a", "b">>},
     last_10_digits : {<<"5", "7">>},
     ReportedAt     : {10},
     amount         : {NaN, Float(50)},
     CASHVIP        : {"YES", "NO", ""}]

SecondaryRowsSmall ==
    [RecipientPhoneNumber : {<<"1", "5", "7">>},
     Recipient            : {<<"A", "B">>},
     OrderReleaseDate     : {10, 11},
     Amount               : {Float(50)},
     CASHVIPq             : {"YES", NA},
     EventID              : {None}]

\* ------------------------------------------------------------ the predicates
\* line 115: phone number ends with the ten digits, names equal ignoring case
JoinPredicate(p, s) ==
    /\ EndsWith(s.RecipientPhoneNumber, p.last_10_digits)
    /\ Lower(p.name) = Lower(s.Recipient)

\* lines 118-119: released strictly after the report, at most 7 days after
WindowPredicate(p, s) ==
    /\ s.OrderReleaseDate > p.ReportedAt
    /\ s.OrderReleaseDate <= p.ReportedAt + WindowDays

\* line 120
AmountPredicate(p, s) == FloatEq(p.amount, s.Amount)

\* lines 121-122: pd.isna is true of NaN/None only
VipPredicate(p, s) ==
    \/ (p.CASHVIP = "YES" /\ s.CASHVIPq = "YES")
    \/ (p.CASHVIP = "" /\ s.CASHVIPq = NA)

\* lines 115-122: the two nested ifs
IsMatch(p, s) ==
    /\ JoinPredicate(p, s)
    /\ WindowPredicate(p, s)
    /\ AmountPredicate(p, s)
    /\ VipPredicate(p, s)

\* ----------------------------------------------------------------- helpers
\* x in list
InList(list, x) == \E n \in 1..Len(list) : list[n] = x

\* A removal that leaves the list as it is.
RemoveNothing(list, x) == list

\* list.remove(x): drops the first occurrence of x
Remove(list, x) ==
    LET pos == CHOOSE n \in 1..Len(list) :
                   list[n] = x /\ \A m \in 1..(n - 1) : list[m] # x
    IN  SubSeq(list, 1, pos - 1) \o SubSeq(list, pos + 1, Len(list))

\* df.index.tolist()
IndexList(df) == [n \in 1..Len(df) |-> n]

\* An inner loop over every secondary row, matched or not.
AvailableAll(df, unmatched) == IndexList(df)

\* An inner loop over the unmatched rows from the last to the first.
AvailableReversed(df, unmatched) ==
    LET a == SelectSeq(IndexList(df), LAMBDA j : InList(unmatched, j))
    IN  [n \in 1..Len(a) |-> a[Len(a) + 1 - n]]

\* An inner loop that misses the first unmatched row.
AvailableTail(df, unmatched) ==
    LET a == SelectSeq(IndexList(df), LAMBDA j : InList(unmatched, j))
    IN  IF a = <<>> THEN a ELSE Tail(a)

\* secondary[secondary.index.isin(unmatched)]: the rows still unmatched, in
\* the frame's order.  The filtered frame is built once, when the inner loop
\* starts; only the labels are kept here because the loop body reads no
\* field that match_data writes.
Available(df, unmatched) ==
    SelectSeq(IndexList(df), LAMBDA j : InList(unmatched, j))

\* An inner loop without the break: it goes on to the next row.
NoBreak(pos) == [pc |-> "inner", k |-> pos]

\* `break` (line 130): leaves the inner loop for the next primary row.
AfterAssign(pos) == [pc |-> "outer", k |-> pos]

\* primary.loc[indices].copy(): the rows with their labels
Loc(df, indices) ==
    [n \in 1..Len(indices) |-> [index |-> indices[n], row |-> df[indices[n]]]]

\* .drop(columns=['Event ID'])
DropEventID(frame) ==
    [n \in 1..Len(frame) |->
        [index |-> frame[n].index,
         row   |-> [f \in (DOMAIN frame[n].row) \ {"EventID"} |-> frame[n].row[f]]]]

\* -------------------------------------------------------------------- Init
\* lines 105-109, on the two frames handed to match_data
Init ==
    /\ \/ /\ primary \in [1..1 -> PrimaryRowsFull]
          /\ secondary \in [1..1 -> SecondaryRowsFull]
       \/ \E np \in 0..MaxPrimary, ns \in 0..MaxSecondary :
             /\ primary \in [1..np -> PrimaryRowsSmall]
             /\ secondary \in [1..ns -> SecondaryRowsSmall]
    /\ unmatched_primary_indices = IndexList(primary)
    /\ unmatched_secondary_indices = IndexList(secondary)
    /\ i = 0
    /\ rows = <<>>
    /\ k = 0
    /\ pc = "outer"
    /\ missing_events = <<>>
    /\ missing_rewards = <<>>

\* ----------------------------------------------------------------- actions
\* line 112-113: the outer loop takes the next primary row and builds the
\* frame of the secondary rows still unmatched.
NextPrimary ==
    /\ pc = "outer"
    /\ i < Len(primary)
    /\ i' = i + 1
    /\ rows' = Available(secondary, unmatched_secondary_indices)
    /\ k' = 0
    /\ pc' = "inner"
    /\ UNCHANGED <<primary, secondary, unmatched_primary_indices,
                   unmatched_secondary_indices, missing_events, missing_rewards>>

\* lines 113-122: the inner loop takes the next row; the test fails.
Examine ==
    /\ pc = "inner"
    /\ k < Len(rows)
    /\ ~IsMatch(primary[i], secondary[rows[k + 1]])
    /\ k' = k + 1
    /\ UNCHANGED <<primary, secondary, unmatched_primary_indices,
                   unmatched_secondary_indices, i, rows, pc,
                   missing_events, missing_rewards>>

\* lines 113-130: the inner loop takes the next row; the test passes.
Assign ==
    /\ pc = "inner"
    /\ k < Len(rows)
    /\ LET j == rows[k + 1] IN
        /\ IsMatch(primary[i], secondary[j])
        /\ secondary' = [secondary EXCEPT ![j].EventID = primary[i].EventID]
        /\ unmatched_primary_indices' =
              IF InList(unmatched_primary_indices, i)
              THEN Remove(unmatched_primary_indices, i)
              ELSE unmatched_primary_indices
        /\ unmatched_secondary_indices' =
              IF InList(unmatched_secondary_indices, j)
              THEN Remove(unmatched_secondary_indices, j)
              ELSE unmatched_secondary_indices
    /\ pc' = AfterAssign(k + 1).pc
    /\ k' = AfterAssign(k + 1).k
    /\ UNCHANGED <<primary, i, rows, missing_events, missing_rewards>>

\* line 113: the inner loop has no row left.
Exhausted ==
    /\ pc = "inner"
    /\ k >= Len(rows)
    /\ pc' = "outer"
    /\ UNCHANGED <<primary, secondary, unmatched_primary_indices,
                   unmatched_secondary_indices, i, rows, k,
                   missing_events, missing_rewards>>

\* lines 132-144: the outer loop has no row left.
Finish ==
    /\ pc = "outer"
    /\ i >= Len(primary)
    /\ missing_events' = Loc(primary, unmatched_primary_indices)
    /\ missing_rewards' = DropEventID(Loc(secondary, unmatched_secondary_indices))
    /\ pc' = "done"
    /\ UNCHANGED <<primary, secondary, unmatched_primary_indices,
                   unmatched_secondary_indices, i, rows, k>>

Next == NextPrimary \/ Examine \/ Assign \/ Exhausted \/ Finish

Spec == Init /\ [][Next]_vars

\* ------------------------------------------------ vocabulary of the claims
Done == pc = "done"

DistinctEventIDs ==
    \A a, b \in DOMAIN primary :
        a # b => primary[a].EventID # primary[b].EventID

NonNullEventIDs == \A a \in DOMAIN primary : primary[a].EventID # None

\* The VIP predicate as the specification words it: flag true on both sides,
\* or primary flag false/absent ('NO' or '') with the secondary flag absent.
SpecVipPredicate(p, s) ==
    \/ (p.CASHVIP = "YES" /\ s.CASHVIPq = "YES")
    \/ (p.CASHVIP \in {"NO", ""} /\ s.CASHVIPq = NA)

AllFour(p, s) ==
    /\ JoinPredicate(p, s)
    /\ WindowPredicate(p, s)
    /\ AmountPredicate(p, s)
    /\ SpecVipPredicate(p, s)

InMissingEvents(a) ==
    \E n \in DOMAIN missing_events : missing_events[n].index = a

InMissingRewards(b) ==
    \E n \in DOMAIN missing_rewards : missing_rewards[n].index = b

EventIDAssigned(a) ==
    \E b \in DOMAIN secondary :
        secondary[b].EventID # None /\ secondary[b].EventID = primary[a].EventID

\* The inner loop is about to test the current primary row against a row.
Examining == pc = "inner" /\ k < Len(rows)

\* This step gives secondary row b to primary row a.
Assigns(a, b) ==
    /\ InList(unmatched_secondary_indices, b)
    /\ ~InList(unmatched_secondary_indices', b)
    /\ ~InList(unmatched_primary_indices', a)
    /\ secondary'[b].EventID = primary[a].EventID

\* ------------------------------------------------------------------- C1
\* C1: after match_data finishes on a primary frame whose Event IDs are
\* pairwise distinct, no two distinct secondary rows carry the same non-null
\* Event ID.
C1_Uniqueness ==
    (Done /\ DistinctEventIDs) =>
        \A a, b \in DOMAIN secondary :
            (a # b /\ secondary[a].EventID # None) =>
                secondary[a].EventID # secondary[b].EventID

C1_Witness ==
    /\ Done
    /\ DistinctEventIDs
    /\ Len(secondary) >= 2
    /\ secondary[1].EventID # None
    /\ secondary[2].EventID # None

\* ------------------------------------------------------------------- C2
\* C2 as stated: after match_data finishes, every primary row is in exactly
\* one of {its Event ID is on some secondary row, it is in missing_events},
\* and every secondary row is in exactly one of {its Event ID is non-null,
\* it is in missing_rewards}.
PartitionComplete ==
    /\ \A a \in DOMAIN primary : EventIDAssigned(a) # InMissingEvents(a)
    /\ \A b \in DOMAIN secondary :
           (secondary[b].EventID # None) # InMissingRewards(b)

C2_Original == Done => PartitionComplete

\* C2 as amended: the same, for primary frames whose Event IDs are pairwise
\* distinct and non-null.
C2_Partition == (Done /\ DistinctEventIDs /\ NonNullEventIDs) => PartitionComplete

C2_Witness ==
    /\ Done
    /\ DistinctEventIDs
    /\ NonNullEventIDs
    /\ \E a \in DOMAIN primary : EventIDAssigned(a)
    /\ \E a \in DOMAIN primary : InMissingEvents(a)
    /\ \E b \in DOMAIN secondary : InMissingRewards(b)

\* ------------------------------------------------------------------- C3
\* C3: one non-VIP primary row as prepare_data makes it (CASHVIP 'NO') and
\* one secondary row with an absent VIP flag that satisfy the join, window
\* and amount predicates end matched: the secondary row carries the
\* primary's Event ID and both unmatched frames are empty.
C3_Claim ==
    ( /\ Done
      /\ Len(primary) = 1
      /\ Len(secondary) = 1
      /\ primary[1].EventID # None
      /\ primary[1].CASHVIP = "NO"
      /\ secondary[1].CASHVIPq = NA
      /\ JoinPredicate(primary[1], secondary[1])
      /\ WindowPredicate(primary[1], secondary[1])
      /\ AmountPredicate(primary[1], secondary[1]) )
    => ( /\ secondary[1].EventID = primary[1].EventID
         /\ missing_events = <<>>
         /\ missing_rewards = <<>> )

\* ------------------------------------------------------------------- C4
\* C4: the pair under test is matched if and only if the join, window,
\* amount and VIP predicates all hold for it.
C4_Claim ==
    [][Examining =>
          (Assigns(i, rows[k + 1]) <=>
               AllFour(primary[i], secondary[rows[k + 1]]))]_vars

\* ------------------------------------------------------------------- C5
\* C5: for a pair under test that satisfies the join, amount and VIP
\* predicates, a release 1 to 7 days after the report matches; a release on
\* the day of the report, 8 or more days after it, or before it does not.
C5_Claim ==
    [][( /\ Examining
         /\ JoinPredicate(primary[i], secondary[rows[k + 1]])
         /\ AmountPredicate(primary[i], secondary[rows[k + 1]])
         /\ SpecVipPredicate(primary[i], secondary[rows[k + 1]]) )
       => LET d == secondary[rows[k + 1]].OrderReleaseDate - primary[i].ReportedAt
          IN  Assigns(i, rows[k + 1]) <=> (d >= 1 /\ d <= 7)]_vars

\* ------------------------------------------------------------------- C6
\* C6: when two primary rows both satisfy all four predicates against the
\* same secondary row, and no other pairing of either row or of that
\* secondary row satisfies them, the earlier primary row receives the match
\* and the later one ends in missing_events.
C6_Claim ==
    Done =>
      \A a1, a2 \in DOMAIN primary : \A b \in DOMAIN secondary :
        ( /\ a1 < a2
          /\ AllFour(primary[a1], secondary[b])
          /\ AllFour(primary[a2], secondary[b])
          /\ \A b2 \in DOMAIN secondary \ {b} :
                 /\ ~AllFour(primary[a1], secondary[b2])
                 /\ ~AllFour(primary[a2], secondary[b2])
          /\ \A a3 \in DOMAIN primary \ {a1, a2} :
                 ~AllFour(primary[a3], secondary[b]) )
        => ( /\ secondary[b].EventID = primary[a1].EventID
             /\ ~InMissingEvents(a1)
             /\ InMissingEvents(a2) )

\* ------------------------------------------------------------------- C7
\* C7: whenever a step matches a primary row, the secondary row it receives
\* is the earliest row in secondary order that is still unassigned and
\* satisfies all four predicates with it; exactly that row leaves the pool,
\* and the inner loop is left at once, so no later candidate is examined.
C7_FirstFit ==
    [][(unmatched_secondary_indices' # unmatched_secondary_indices
          \/ unmatched_primary_indices' # unmatched_primary_indices) =>
        /\ Examining
        /\ \E b \in DOMAIN secondary :
              /\ Assigns(i, b)
              /\ AllFour(primary[i], secondary[b])
              /\ \A b2 \in DOMAIN secondary :
                    (b2 < b /\ InList(unmatched_secondary_indices, b2))
                        => ~AllFour(primary[i], secondary[b2])
              /\ \A b2 \in DOMAIN secondary \ {b} :
                    /\ secondary'[b2] = secondary[b2]
                    /\ InList(unmatched_secondary_indices', b2)
                         = InList(unmatched_secondary_indices, b2)
        /\ pc' = "outer"]_vars

\* The second primary row took the second secondary row although the first
\* secondary row also fits it: that row was already assigned.
C7_Witness ==
    /\ Len(primary) = 2
    /\ Len(secondary) = 2
    /\ i = 2
    /\ secondary[1].EventID = primary[1].EventID
    /\ secondary[2].EventID = primary[2].EventID
    /\ primary[1].EventID # primary[2].EventID
    /\ AllFour(primary[2], secondary[1])

\* ------------------------------------------------------------------- C8
\* C8: a primary row whose amount is NaN matches no secondary row, whatever
\* that row's fields (a NaN amount included): it stays in the unmatched
\* list, is reported in missing_events, and the loop goes on past it.
C8_NaNAmount ==
    \A a \in DOMAIN primary :
        primary[a].amount.nan =>
            /\ InList(unmatched_primary_indices, a)
            /\ \A b \in DOMAIN secondary : ~IsMatch(primary[a], secondary[b])
            /\ Done => InMissingEvents(a)
            /\ (Examining /\ i = a) => ENABLED Examine

\* Both amounts are NaN, every other predicate holds, and the primary row is
\* reported unmatched.
C8_Witness ==
    /\ Done
    /\ Len(primary) = 1
    /\ Len(secondary) = 1
    /\ primary[1].amount.nan
    /\ secondary[1].Amount.nan
    /\ JoinPredicate(primary[1], secondary[1])
    /\ WindowPredicate(primary[1], secondary[1])
    /\ VipPredicate(primary[1], secondary[1])
    /\ InMissingEvents(1)

\* ------------------------------------------------------------------- C9
\* C9: once a secondary row's Event ID is non-null it keeps that value in
\* every later step; an assigned row is out of the unmatched list and is not
\* among the rows the inner loop has still to scan.
C9_AssignedOnce ==
    [][\A b \in DOMAIN secondary :
          secondary[b].EventID # None =>
              /\ secondary'[b].EventID = secondary[b].EventID
              /\ ~InList(unmatched_secondary_indices, b)
              /\ \A n \in (k + 1)..Len(rows) : pc = "inner" => rows[n] # b]_vars

\* A later primary row with another Event ID is being processed, and it
\* satisfies the code's test against a row that is already assigned.
C9_Witness ==
    /\ pc = "inner"
    /\ i = 2
    /\ Len(secondary) >= 1
    /\ secondary[1].EventID = primary[1].EventID
    /\ primary[2].EventID # primary[1].EventID
    /\ IsMatch(primary[2], secondary[1])

\* ------------------------------------------------------------------ C10
\* C10: after match_data finishes, no row of missing_events and row of
\* missing_rewards satisfy the code's test together.
C10_Maximal ==
    Done =>
        \A n \in DOMAIN missing_events : \A m \in DOMAIN missing_rewards :
            ~IsMatch(missing_events[n].row, missing_rewards[m].row)

\* Something was matched, rows are left over on both sides, and a leftover
\* primary row fits a secondary row that an earlier primary row received.
C10_Witness ==
    /\ Done
    /\ missing_events # <<>>
    /\ missing_rewards # <<>>
    /\ \E n \in DOMAIN missing_events : \E b \in DOMAIN secondary :
          /\ secondary[b].EventID # None
          /\ IsMatch(missing_events[n].row, secondary[b])

====
